---- MODULE Spec2Model ----
(***************************************************************************)
(* A fishnet node's layer-3 code (fishnode.c): the receive handler, the    *)
(* send and forward functions, and the duplicate-suppression hash table,   *)
(* together with the libfish services they call (forwarding table lookup,  *)
(* FCMP error generation, layer-2 send, layer-4 delivery).                 *)
(*                                                                         *)
(* libfish dispatches every handler from one event loop, run to            *)
(* completion, so each handler invocation is one action.  The calls a      *)
(* handler makes into libfish are recorded, in order, in `trace`.          *)
(***************************************************************************)
EXTENDS Integers, Sequences, FiniteSets, TLC

----------------------------------------------------------------------------
(* Bounds of the model *)

\* fnaddr_t is uint32_t in the source; the model uses AddrBits-bit addresses
\* so that the all-ones address fits TLC's integers.
AddrBits == 24
\* time(NULL) advances in steps of TickStep seconds up to MaxTime.
TickStep == 60
MaxTime == 120
\* The callbacks that can wait for one ARP lookup.
MaxWaiting == 2
\* The times an ARP request is repeated before the lookup fails.
RetryBudget == 2
\* The lifetime of an ARP cache entry (timeout of add_arp_entry), seconds.
ArpTimeout == TickStep

----------------------------------------------------------------------------
(* Program constants *)

ENTRY_TTL_SECONDS == 120
HASH_TABLE_SIZE == 1024
MAX_TTL == 64
\* struct L3_hdr is packed: ttl:1, protocol:1, packet_id:4, src:4, dst:4.
L3_HDR_LEN == 1 + 1 + 4 + 4 + 4
ALL_NEIGHBORS == 2^AddrBits - 1
\* The value fish_getaddress() returns for this node.
MyAddr == 1
\* The protocol number that marks an FCMP (control error) packet.
FCMP_PROTO == 8
\* The protocol number of the echo application (echo.c).
ECHO_PROTOCOL == 2
\* The l2_proto my_fish_l3_forward passes to fish_l2_send.
L2_PROTO_L3 == 1
\* FCMP error codes used by my_fish_l3_forward.
FCMP_TTL_EXCEEDED == 1
FCMP_NO_ROUTE == 2
\* The value get_timestamp returns for "not found / expired".
NOT_FOUND == -1

----------------------------------------------------------------------------
(* Input domains *)

\* The other nodes: frames go to Nodes and come from Sources.
Nodes == {2}
Sources == {3}
Dests == {MyAddr, ALL_NEIGHBORS} \cup Nodes
\* 7 and 65543 agree in their low 16 bits.
PacketIds == {7, 65543}
Protocols == {ECHO_PROTOCOL, FCMP_PROTO}
Ttls == {0, 1, 2}
SendTtls == {0, 1, MAX_TTL, MAX_TTL + 1}
Payloads == {<<5, 6>>}

\* The lengths a frame is received with: its full length, or one byte less
\* than a header.  The header fields of a short frame that lie past its end
\* are whatever the memory there holds, so they range over all values too.
RxLens(l3frame) == {L3_HDR_LEN + Len(l3frame.payload), L3_HDR_LEN - 1}

AllFrames ==
    [ttl : Ttls, protocol : Protocols, packet_id : PacketIds,
     src : Sources, dst : Dests, payload : Payloads]

\* Received frames: the packet id varies where the code reads it, on
\* broadcast frames.
Frames == {f \in AllFrames : f.dst = ALL_NEIGHBORS \/ f.packet_id = 7}

\* The frames libfish's own protocols hand to fish_l3_forward.
FwdFrames == {f \in AllFrames : f.packet_id = 7}

\* Candidate routes the routing protocols may install: a host route to
\* node 2 and a default route, which covers every address.
Routes ==
    { [dst |-> 2, prefix_length |-> AddrBits, next_hop |-> 2, metric |-> 1],
      [dst |-> 0, prefix_length |-> 0, next_hop |-> 3, metric |-> 5] }

----------------------------------------------------------------------------
(* State *)

VARIABLES
    hash_table,   \* the dedup cache: index of a non-NULL bucket -> its chain
    now,          \* the clock, time(NULL)
    fwtable,      \* libfish's forwarding table
    rxlog,        \* history: (src, packet_id) -> time a broadcast with that
                  \* pair last reached my_fishnode_l3_receive, or NOT_FOUND
    call,         \* the handler invocation the last step ran, if it ran one
    trace,        \* the calls that invocation made, in order
    buf,          \* the buffer that invocation was given, as it left it
    arp_cache,    \* libfish's ARP cache: L3 address -> L2 address and expiry
    arp_pending   \* libfish's ARP lookups in progress: L3 address -> the
                  \* callbacks waiting and the retries left

vars == <<hash_table, now, fwtable, rxlog, call, trace, buf, arp_cache,
          arp_pending>>

----------------------------------------------------------------------------
(* Integer helpers *)

U8(x) == x % 256
U16(x) == x % 65536

RECURSIVE Xor(_, _)
Xor(a, b) ==
    IF a = 0 THEN b
    ELSE IF b = 0 THEN a
    ELSE (((a % 2) + (b % 2)) % 2) + 2 * Xor(a \div 2, b \div 2)

----------------------------------------------------------------------------
(* The dedup cache *)

\* Mutant of hash_function: the fields are added.
hash_function_Sum(src, packet_id) == (src + packet_id) % HASH_TABLE_SIZE

hash_function(src, packet_id) == Xor(src, packet_id) % HASH_TABLE_SIZE

HashEntry(src, packet_id, timestamp) ==
    [src |-> src, packet_id |-> packet_id, timestamp |-> timestamp]

\* Positions in chain c holding the key (src, packet_id).
Matches(c, src, packet_id) ==
    {i \in 1..Len(c) : c[i].src = src /\ c[i].packet_id = packet_id}

\* FNL2_VALID fails for the all-zero L2 address.
INVALID_L2 == 0

Min(S) == CHOOSE x \in S : \A y \in S : x <= y

\* hash_table[index]: the empty chain stands for NULL.
Bucket(table, index) ==
    IF index \in DOMAIN table THEN table[index] ELSE <<>>

\* hash_table[index] = chain
SetBucket(table, index, chain) ==
    [i \in DOMAIN table \cup {index} |->
        IF i = index THEN chain ELSE table[i]]

\* Mutant of insert_entry: an entry already stored for the key is kept as
\* it is.
insert_entry_KeepsOld(table, t, src, packet_id) ==
    LET index == hash_function(src, packet_id)
        new_entry == HashEntry(src, packet_id, t)
        chain == Bucket(table, index)
        m == Matches(chain, src, packet_id)
    IN  IF chain = <<>> THEN SetBucket(table, index, <<new_entry>>)
        ELSE IF m # {}
             THEN table
             ELSE SetBucket(table, index, <<new_entry>> \o chain)

\* Mutant of insert_entry: a new key takes the bucket over (new_entry->next
\* stays NULL).
insert_entry_DropsChain(table, t, src, packet_id) ==
    LET index == hash_function(src, packet_id)
        new_entry == HashEntry(src, packet_id, t)
        chain == Bucket(table, index)
        m == Matches(chain, src, packet_id)
    IN  IF chain = <<>> THEN SetBucket(table, index, <<new_entry>>)
        ELSE IF m # {}
             THEN SetBucket(table, index, [chain EXCEPT ![Min(m)] = new_entry])
             ELSE SetBucket(table, index, <<new_entry>>)

\* Mutant of insert_entry: the chain is not searched for the key.
insert_entry_AlwaysPrepends(table, t, src, packet_id) ==
    LET index == hash_function(src, packet_id)
        new_entry == HashEntry(src, packet_id, t)
        chain == Bucket(table, index)
    IN  SetBucket(table, index, <<new_entry>> \o chain)

\* Mutant of insert_entry: the replacing entry does not take over the rest
\* of the chain (new_entry->next stays NULL).
insert_entry_CutsChain(table, t, src, packet_id) ==
    LET index == hash_function(src, packet_id)
        new_entry == HashEntry(src, packet_id, t)
        chain == Bucket(table, index)
        m == Matches(chain, src, packet_id)
    IN  IF chain = <<>> THEN SetBucket(table, index, <<new_entry>>)
        ELSE IF m # {}
             THEN SetBucket(table, index,
                            SubSeq(chain, 1, Min(m) - 1) \o <<new_entry>>)
             ELSE SetBucket(table, index, <<new_entry>> \o chain)

\* insert_entry: the parameter packet_id is uint16_t.
insert_entry(table, t, src, packet_id) ==
    LET index == hash_function(src, packet_id)
        new_entry == HashEntry(src, packet_id, t)
        chain == Bucket(table, index)
        m == Matches(chain, src, packet_id)
    IN  IF chain = <<>> THEN SetBucket(table, index, <<new_entry>>)
        ELSE IF m # {}
             THEN SetBucket(table, index, [chain EXCEPT ![Min(m)] = new_entry])
             ELSE SetBucket(table, index, <<new_entry>> \o chain)

\* Mutant of get_timestamp: an entry expires on reaching ENTRY_TTL_SECONDS.
get_timestamp_ExpiresAtTtl(table, t, src, packet_id) ==
    LET chain == Bucket(table, hash_function(src, packet_id))
        m == Matches(chain, src, packet_id)
    IN  IF m = {} THEN NOT_FOUND
        ELSE LET current == chain[Min(m)]
             IN  IF t - current.timestamp >= ENTRY_TTL_SECONDS
                 THEN NOT_FOUND
                 ELSE current.timestamp

\* get_timestamp: the parameter packet_id is uint16_t.
get_timestamp(table, t, src, packet_id) ==
    LET chain == Bucket(table, hash_function(src, packet_id))
        m == Matches(chain, src, packet_id)
    IN  IF m = {} THEN NOT_FOUND
        ELSE LET current == chain[Min(m)]
             IN  IF t - current.timestamp > ENTRY_TTL_SECONDS
                 THEN NOT_FOUND
                 ELSE current.timestamp

\* The timestamp stored for the key, expired or not; NOT_FOUND if none.
StoredTimestamp(table, src, packet_id) ==
    LET chain == Bucket(table, hash_function(src, packet_id))
        m == Matches(chain, src, packet_id)
    IN  IF m = {} THEN NOT_FOUND ELSE chain[Min(m)].timestamp

\* Mutant of LookupEffect: the lookup unlinks and frees an entry it finds
\* expired.
LookupEffect_ReclaimsExpired(table, t, src, packet_id) ==
    LET index == hash_function(src, packet_id)
        chain == Bucket(table, index)
        m == Matches(chain, src, packet_id)
        timestamp == get_timestamp(table, t, src, packet_id)
    IN  IF m # {} /\ timestamp = NOT_FOUND
        THEN [table |-> SetBucket(table, index,
                            SubSeq(chain, 1, Min(m) - 1) \o
                            SubSeq(chain, Min(m) + 1, Len(chain))),
              timestamp |-> timestamp]
        ELSE [table |-> table, timestamp |-> timestamp]

\* A call of get_timestamp: the value it returns and the table it leaves.
\* The function only reads hash_table.
LookupEffect(table, t, src, packet_id) ==
    [table |-> table, timestamp |-> get_timestamp(table, t, src, packet_id)]

----------------------------------------------------------------------------
(* libfish's forwarding table *)

\* 2^(number of host bits) of a route of the given prefix length.
HostSpan(prefix_length) == 2^(AddrBits - prefix_length)

Covers(e, addr) ==
    (addr \div HostSpan(e.prefix_length)) = (e.dst \div HostSpan(e.prefix_length))

\* Mutant of Better: the lower metric wins whatever the prefix lengths.
Better_MetricFirst(a, b) ==
    \/ a.metric < b.metric
    \/ a.metric = b.metric /\ a.prefix_length > b.prefix_length
    \/ a.metric = b.metric /\ a.prefix_length = b.prefix_length
         /\ a.next_hop <= b.next_hop

\* Route a is preferred to route b: longer prefix, then lower metric, then a
\* fixed order on the next hop.
Better(a, b) ==
    \/ a.prefix_length > b.prefix_length
    \/ a.prefix_length = b.prefix_length /\ a.metric < b.metric
    \/ a.prefix_length = b.prefix_length /\ a.metric = b.metric
         /\ a.next_hop <= b.next_hop

\* fish_fwd.longest_prefix_match: 0 when no entry covers addr.
longest_prefix_match(addr) ==
    LET cand == {e \in fwtable : Covers(e, addr)}
    IN  IF cand = {} THEN 0
        ELSE (CHOOSE e \in cand : \A o \in cand : Better(e, o)).next_hop

\* fish_fwd.add_fwtable_entry: the route is stored with the key the call
\* returns and the caller's user_data; stored routes are never overwritten.
add_fwtable_entry(table, key, route, user_data) ==
    table \cup {[key |-> key, dst |-> route.dst,
                 prefix_length |-> route.prefix_length,
                 next_hop |-> route.next_hop, metric |-> route.metric,
                 user_data |-> user_data]}

\* Mutant of remove_fwtable_entry: a key that is not stored is accepted, and
\* the call counts as the removal of an entry without user_data.
remove_fwtable_entry_StaleKeyAccepted(table, route_key) ==
    LET live == {e \in table : e.key = route_key}
    IN  IF live = {} THEN [table |-> table, result |-> [user_data |-> 0]]
        ELSE LET e == CHOOSE x \in live : TRUE
             IN  [table |-> table \ {e},
                  result |-> [user_data |-> e.user_data]]

\* fish_fwd.remove_fwtable_entry: removes the entry of the key and returns
\* its user_data; fails with UnknownRouteKey for a key that is not stored.
remove_fwtable_entry(table, route_key) ==
    LET live == {e \in table : e.key = route_key}
    IN  IF live = {} THEN [table |-> table,
                           result |-> [error |-> "UnknownRouteKey"]]
        ELSE LET e == CHOOSE x \in live : TRUE
             IN  [table |-> table \ {e},
                  result |-> [user_data |-> e.user_data]]

----------------------------------------------------------------------------
(* Calls into libfish, as recorded in the trace *)

\* l4frame is what the pointer passed points at (the bytes after the
\* header), off its offset in the layer-3 frame.
L4Receive(l4frame, off, len, proto, src) ==
    [op |-> "fish_l4_receive", l4frame |-> l4frame, off |-> off,
     len |-> len, proto |-> proto, src |-> src]

L3Forward(l3frame, len) ==
    [op |-> "fish_l3_forward", frame |-> l3frame, len |-> len]

L3Send(l4frame, len, dst_addr, proto, ttl) ==
    [op |-> "fish_l3_send", l4frame |-> l4frame, len |-> len,
     dst |-> dst_addr, proto |-> proto, ttl |-> ttl]

L2Send(l3frame, next_hop, len, l2_proto) ==
    [op |-> "fish_l2_send", frame |-> l3frame, next_hop |-> next_hop,
     len |-> len, l2_proto |-> l2_proto]

FcmpResponse(l3frame, len, err) ==
    [op |-> "send_fcmp_response", frame |-> l3frame, len |-> len, err |-> err]

Lpm(addr, next_hop) ==
    [op |-> "longest_prefix_match", addr |-> addr, next_hop |-> next_hop]

GetTimestamp(src, packet_id, timestamp) ==
    [op |-> "get_timestamp", src |-> src, packet_id |-> packet_id,
     timestamp |-> timestamp]

InsertEntry(src, packet_id) ==
    [op |-> "insert_entry", src |-> src, packet_id |-> packet_id]

----------------------------------------------------------------------------
(* Layer 3: forward, send, FCMP *)

RECURSIVE my_fish_l3_forward(_, _, _)
RECURSIVE my_fish_l3_send(_, _, _, _, _, _)
RECURSIVE send_fcmp_response(_, _, _, _)

\* The payload of an FCMP error: the error code, then the original header.
FcmpPayload(l3frame, err) ==
    <<err, l3frame.ttl, l3frame.protocol, l3frame.packet_id, l3frame.src,
      l3frame.dst>>

\* Mutant of send_fcmp_response: only FCMP packets are left unanswered.
send_fcmp_response_BroadcastAnswered(l3frame, len, err, uninit) ==
    <<FcmpResponse(l3frame, len, err)>> \o
    ( IF l3frame.protocol = FCMP_PROTO
      THEN <<>>
      ELSE my_fish_l3_send(FcmpPayload(l3frame, err), 4 + L3_HDR_LEN,
                           l3frame.src, FCMP_PROTO, 0, uninit) )

\* Mutant of send_fcmp_response: only broadcast packets are left unanswered.
send_fcmp_response_FcmpAnswered(l3frame, len, err, uninit) ==
    <<FcmpResponse(l3frame, len, err)>> \o
    ( IF l3frame.dst = ALL_NEIGHBORS
      THEN <<>>
      ELSE my_fish_l3_send(FcmpPayload(l3frame, err), 4 + L3_HDR_LEN,
                           l3frame.src, FCMP_PROTO, 0, uninit) )

\* fish_fcmp.send_fcmp_response (libfish built-in): no error is sent for a
\* broadcast packet or for another FCMP packet; otherwise the error goes to
\* the original source through fish_l3_send.
send_fcmp_response(l3frame, len, err, uninit) ==
    <<FcmpResponse(l3frame, len, err)>> \o
    ( IF l3frame.dst = ALL_NEIGHBORS \/ l3frame.protocol = FCMP_PROTO
      THEN <<>>
      ELSE my_fish_l3_send(FcmpPayload(l3frame, err), 4 + L3_HDR_LEN,
                           l3frame.src, FCMP_PROTO, 0, uninit) )

\* Mutant of my_fish_l3_forward: the ttl is not checked before the lookup.
my_fish_l3_forward_NoTtlCheck(l3frame, len, uninit) ==
    LET dest_addr == l3frame.dst
        my_addr == MyAddr
        looked_up == longest_prefix_match(dest_addr)
        next_hop == IF dest_addr = my_addr THEN my_addr
                    ELSE IF dest_addr = ALL_NEIGHBORS THEN ALL_NEIGHBORS
                    ELSE looked_up
    IN  <<L3Forward(l3frame, len), Lpm(dest_addr, looked_up)>> \o
        ( IF next_hop = 0
          THEN send_fcmp_response(l3frame, len, FCMP_NO_ROUTE, uninit)
          ELSE <<L2Send(l3frame, next_hop, len, L2_PROTO_L3)>> )

\* Mutant of my_fish_l3_forward: the route is looked up, and its absence
\* reported, before the ttl is checked.
my_fish_l3_forward_LookupFirst(l3frame, len, uninit) ==
    LET dest_addr == l3frame.dst
        my_addr == MyAddr
        looked_up == longest_prefix_match(dest_addr)
        next_hop == IF dest_addr = my_addr THEN my_addr
                    ELSE IF dest_addr = ALL_NEIGHBORS THEN ALL_NEIGHBORS
                    ELSE looked_up
    IN  <<L3Forward(l3frame, len), Lpm(dest_addr, looked_up)>> \o
        ( IF next_hop = 0
          THEN send_fcmp_response(l3frame, len, FCMP_NO_ROUTE, uninit)
          ELSE IF l3frame.ttl = 0 /\ dest_addr # my_addr
          THEN send_fcmp_response(l3frame, len, FCMP_TTL_EXCEEDED, uninit)
          ELSE <<L2Send(l3frame, next_hop, len, L2_PROTO_L3)>> )

\* Mutant of my_fish_l3_forward: no return after the no-route error.
my_fish_l3_forward_NoReturn(l3frame, len, uninit) ==
    LET dest_addr == l3frame.dst
        my_addr == MyAddr
        looked_up == longest_prefix_match(dest_addr)
        next_hop == IF dest_addr = my_addr THEN my_addr
                    ELSE IF dest_addr = ALL_NEIGHBORS THEN ALL_NEIGHBORS
                    ELSE looked_up
    IN  <<L3Forward(l3frame, len)>> \o
        ( IF l3frame.ttl = 0 /\ dest_addr # my_addr
          THEN send_fcmp_response(l3frame, len, FCMP_TTL_EXCEEDED, uninit)
          ELSE <<Lpm(dest_addr, looked_up)>> \o
               ( IF next_hop = 0
                 THEN send_fcmp_response(l3frame, len, FCMP_NO_ROUTE, uninit)
                 ELSE <<>> ) \o
               <<L2Send(l3frame, next_hop, len, L2_PROTO_L3)>> )

\* Mutant of my_fish_l3_forward: a broadcast destination takes the next hop
\* the forwarding table gives.
my_fish_l3_forward_NoBroadcastOverride(l3frame, len, uninit) ==
    LET dest_addr == l3frame.dst
        my_addr == MyAddr
        looked_up == longest_prefix_match(dest_addr)
        next_hop == IF dest_addr = my_addr THEN my_addr ELSE looked_up
    IN  <<L3Forward(l3frame, len)>> \o
        ( IF l3frame.ttl = 0 /\ dest_addr # my_addr
          THEN send_fcmp_response(l3frame, len, FCMP_TTL_EXCEEDED, uninit)
          ELSE <<Lpm(dest_addr, looked_up)>> \o
               ( IF next_hop = 0
                 THEN send_fcmp_response(l3frame, len, FCMP_NO_ROUTE, uninit)
                 ELSE <<L2Send(l3frame, next_hop, len, L2_PROTO_L3)>> ) )

\* Mutant of my_fish_l3_forward: the node's own address takes the next hop
\* the forwarding table gives.
my_fish_l3_forward_NoSelfOverride(l3frame, len, uninit) ==
    LET dest_addr == l3frame.dst
        my_addr == MyAddr
        looked_up == longest_prefix_match(dest_addr)
        next_hop == IF dest_addr = ALL_NEIGHBORS THEN ALL_NEIGHBORS
                    ELSE looked_up
    IN  <<L3Forward(l3frame, len)>> \o
        ( IF l3frame.ttl = 0 /\ dest_addr # my_addr
          THEN send_fcmp_response(l3frame, len, FCMP_TTL_EXCEEDED, uninit)
          ELSE <<Lpm(dest_addr, looked_up)>> \o
               ( IF next_hop = 0
                 THEN send_fcmp_response(l3frame, len, FCMP_NO_ROUTE, uninit)
                 ELSE <<L2Send(l3frame, next_hop, len, L2_PROTO_L3)>> ) )

\* my_fish_l3_forward.  uninit stands for the contents of uninitialised
\* heap memory, which reaches my_fish_l3_send through the FCMP path.
my_fish_l3_forward(l3frame, len, uninit) ==
    LET dest_addr == l3frame.dst
        my_addr == MyAddr
        looked_up == longest_prefix_match(dest_addr)
        next_hop == IF dest_addr = my_addr THEN my_addr
                    ELSE IF dest_addr = ALL_NEIGHBORS THEN ALL_NEIGHBORS
                    ELSE looked_up
    IN  <<L3Forward(l3frame, len)>> \o
        ( IF l3frame.ttl = 0 /\ dest_addr # my_addr
          THEN send_fcmp_response(l3frame, len, FCMP_TTL_EXCEEDED, uninit)
          ELSE <<Lpm(dest_addr, looked_up)>> \o
               ( IF next_hop = 0
                 THEN send_fcmp_response(l3frame, len, FCMP_NO_ROUTE, uninit)
                 ELSE <<L2Send(l3frame, next_hop, len, L2_PROTO_L3)>> ) )

\* Mutant of my_fish_l3_send: a ttl above MAX_TTL is kept.
my_fish_l3_send_NoUpperClamp(l4frame, len, dst_addr, proto, ttl, uninit) ==
    LET t == IF ttl = 0 THEN MAX_TTL ELSE ttl
        l3frame == [ttl |-> t, protocol |-> proto, packet_id |-> uninit,
                    src |-> MyAddr, dst |-> dst_addr, payload |-> l4frame]
    IN  <<L3Send(l4frame, len, dst_addr, proto, ttl)>> \o
        my_fish_l3_forward(l3frame, L3_HDR_LEN + len, uninit)

\* Mutant of my_fish_l3_send: the length passed on leaves the header out.
my_fish_l3_send_PayloadLen(l4frame, len, dst_addr, proto, ttl, uninit) ==
    LET t == IF ttl = 0 \/ ttl > MAX_TTL THEN MAX_TTL ELSE ttl
        l3frame == [ttl |-> t, protocol |-> proto, packet_id |-> uninit,
                    src |-> MyAddr, dst |-> dst_addr, payload |-> l4frame]
    IN  <<L3Send(l4frame, len, dst_addr, proto, ttl)>> \o
        my_fish_l3_forward(l3frame, len, uninit)

\* my_fish_l3_send.  The header's packet_id is never assigned: it keeps
\* whatever malloc's memory held (uninit).
my_fish_l3_send(l4frame, len, dst_addr, proto, ttl, uninit) ==
    LET t == IF ttl = 0 \/ ttl > MAX_TTL THEN MAX_TTL ELSE ttl
        l3_header_len == L3_HDR_LEN
        l3frame == [ttl |-> t, protocol |-> proto, packet_id |-> uninit,
                    src |-> MyAddr, dst |-> dst_addr, payload |-> l4frame]
    IN  <<L3Send(l4frame, len, dst_addr, proto, ttl)>> \o
        my_fish_l3_forward(l3frame, l3_header_len + len, uninit)

----------------------------------------------------------------------------
(* Layer 3: receive *)

\* What a handler invocation leaves behind: the calls it made, the frame
\* buffer, and the dedup cache.
Outcome(events, frame, table) ==
    [events |-> events, frame |-> frame, table |-> table]

\* Mutant of ReceiveLocal: the header size is not taken off the length.
ReceiveLocal_WholeLen(table, l3frame, len) ==
    Outcome(<<L4Receive(l3frame.payload, L3_HDR_LEN, len, l3frame.protocol,
                        l3frame.src)>>,
            l3frame, table)

\* Mutant of ReceiveLocal: the header is taken to be the sum of the ttl,
\* protocol, source and destination fields.
ReceiveLocal_HeaderWithoutId(table, l3frame, len) ==
    LET header == l3frame
        l4off == 1 + 1 + 4 + 4
        l4len == len - (1 + 1 + 4 + 4)
    IN  Outcome(<<L4Receive(l3frame.payload, l4off, l4len,
                            header.protocol, header.src)>>,
                l3frame, table)

\* The destination is this node: strip the header, pass the rest to layer 4.
ReceiveLocal(table, l3frame, len) ==
    LET header == l3frame
        l4off == L3_HDR_LEN
        l4len == len - L3_HDR_LEN
    IN  Outcome(<<L4Receive(l3frame.payload, l4off, l4len,
                            header.protocol, header.src)>>,
                l3frame, table)

\* Mutant of ReceiveBroadcast: the result of the lookup is not tested.
ReceiveBroadcast_NoDupTest(table, t, l3frame, len, uninit) ==
    LET header == l3frame
        pid == U16(header.packet_id)
        timestamp == get_timestamp(table, t, header.src, pid)
        inserted == insert_entry(table, t, header.src, pid)
        ins == <<GetTimestamp(header.src, pid, timestamp),
                 InsertEntry(header.src, pid)>>
    IN  IF header.ttl > 1
        THEN LET dec == [l3frame EXCEPT !.ttl = U8(@ - 1)]
             IN  Outcome(ins
                         \o <<L4Receive(dec.payload, L3_HDR_LEN,
                                        len - L3_HDR_LEN, header.protocol,
                                        header.src)>>
                         \o my_fish_l3_forward(dec, len, uninit),
                         dec, inserted)
        ELSE Outcome(ins, l3frame, inserted)

\* Mutant of ReceiveBroadcast: the frame is delivered before the cache is
\* consulted.
ReceiveBroadcast_DeliversFirst(table, t, l3frame, len, uninit) ==
    LET header == l3frame
        pid == U16(header.packet_id)
        timestamp == get_timestamp(table, t, header.src, pid)
        looked == <<L4Receive(l3frame.payload, L3_HDR_LEN, len - L3_HDR_LEN,
                              header.protocol, header.src),
                    GetTimestamp(header.src, pid, timestamp)>>
    IN  IF timestamp # NOT_FOUND
        THEN LET inserted == insert_entry(table, t, header.src, pid)
                 ins == looked \o <<InsertEntry(header.src, pid)>>
             IN  IF header.ttl > 1
                 THEN LET dec == [l3frame EXCEPT !.ttl = U8(@ - 1)]
                      IN  Outcome(ins \o my_fish_l3_forward(dec, len, uninit),
                                  dec, inserted)
                 ELSE Outcome(ins, l3frame, inserted)
        ELSE Outcome(looked, l3frame, table)

\* Mutant of ReceiveBroadcast: a pair is recorded when it is not in the
\* cache.
ReceiveBroadcast_RecordsNew(table, t, l3frame, len, uninit) ==
    LET header == l3frame
        pid == U16(header.packet_id)
        timestamp == get_timestamp(table, t, header.src, pid)
        looked == <<GetTimestamp(header.src, pid, timestamp)>>
    IN  IF timestamp = NOT_FOUND
        THEN LET inserted == insert_entry(table, t, header.src, pid)
                 ins == looked \o <<InsertEntry(header.src, pid)>>
             IN  IF header.ttl > 1
                 THEN LET dec == [l3frame EXCEPT !.ttl = U8(@ - 1)]
                          l4off == L3_HDR_LEN
                          l4len == len - L3_HDR_LEN
                      IN  Outcome(ins
                                  \o <<L4Receive(dec.payload, l4off,
                                                 l4len, header.protocol,
                                                 header.src)>>
                                  \o my_fish_l3_forward(dec, len, uninit),
                                  dec, inserted)
                 ELSE Outcome(ins, l3frame, inserted)
        ELSE Outcome(looked, l3frame, table)

\* Mutant of ReceiveBroadcast: the frame is delivered between the lookup
\* and the refresh.
ReceiveBroadcast_DeliversBetween(table, t, l3frame, len, uninit) ==
    LET header == l3frame
        pid == U16(header.packet_id)
        timestamp == get_timestamp(table, t, header.src, pid)
        looked == <<GetTimestamp(header.src, pid, timestamp)>>
    IN  IF timestamp # NOT_FOUND
        THEN LET inserted == insert_entry(table, t, header.src, pid)
             IN  IF header.ttl > 1
                 THEN LET dec == [l3frame EXCEPT !.ttl = U8(@ - 1)]
                      IN  Outcome(looked
                                  \o <<L4Receive(dec.payload, L3_HDR_LEN,
                                                 len - L3_HDR_LEN,
                                                 header.protocol, header.src),
                                       InsertEntry(header.src, pid)>>
                                  \o my_fish_l3_forward(dec, len, uninit),
                                  dec, inserted)
                 ELSE Outcome(looked \o <<InsertEntry(header.src, pid)>>,
                              l3frame, inserted)
        ELSE Outcome(looked, l3frame, table)

\* The destination is the broadcast address.
ReceiveBroadcast(table, t, l3frame, len, uninit) ==
    LET header == l3frame
        pid == U16(header.packet_id)
        timestamp == get_timestamp(table, t, header.src, pid)
        looked == <<GetTimestamp(header.src, pid, timestamp)>>
    IN  IF timestamp # NOT_FOUND
        THEN LET inserted == insert_entry(table, t, header.src, pid)
                 ins == looked \o <<InsertEntry(header.src, pid)>>
             IN  IF header.ttl > 1
                 THEN LET dec == [l3frame EXCEPT !.ttl = U8(@ - 1)]
                          l4off == L3_HDR_LEN
                          l4len == len - L3_HDR_LEN
                      IN  Outcome(ins
                                  \o <<L4Receive(dec.payload, l4off,
                                                 l4len, header.protocol,
                                                 header.src)>>
                                  \o my_fish_l3_forward(dec, len, uninit),
                                  dec, inserted)
                 ELSE Outcome(ins, l3frame, inserted)
        ELSE Outcome(looked, l3frame, table)

\* Mutant of ReceiveOther: the ttl is decremented whatever its value.
ReceiveOther_NoTtlGuard(table, l3frame, len, uninit) ==
    LET dec == [l3frame EXCEPT !.ttl = U8(@ - 1)]
    IN  Outcome(my_fish_l3_forward(dec, len, uninit), dec, table)

\* Mutant of ReceiveOther: the decrement hits the byte after the ttl.
ReceiveOther_WrongByte(table, l3frame, len, uninit) ==
    LET header == l3frame
    IN  IF header.ttl > 1
        THEN LET dec == [l3frame EXCEPT !.protocol = U8(@ - 1)]
             IN  Outcome(my_fish_l3_forward(dec, len, uninit), dec, table)
        ELSE Outcome(<<>>, l3frame, table)

\* Mutant of ReceiveOther: a frame whose pair is in the dedup cache is
\* dropped.
ReceiveOther_Dedups(table, l3frame, len, uninit) ==
    LET header == l3frame
        pid == U16(header.packet_id)
        timestamp == StoredTimestamp(table, header.src, pid)
        looked == <<GetTimestamp(header.src, pid, timestamp)>>
    IN  IF header.ttl > 1 /\ timestamp = NOT_FOUND
        THEN LET dec == [l3frame EXCEPT !.ttl = U8(@ - 1)]
             IN  Outcome(looked \o my_fish_l3_forward(dec, len, uninit),
                         dec, table)
        ELSE Outcome(looked, l3frame, table)

\* The destination is some other node.
ReceiveOther(table, l3frame, len, uninit) ==
    LET header == l3frame
    IN  IF header.ttl > 1
        THEN LET dec == [l3frame EXCEPT !.ttl = U8(@ - 1)]
             IN  Outcome(my_fish_l3_forward(dec, len, uninit), dec, table)
        ELSE Outcome(<<>>, l3frame, table)

\* my_fishnode_l3_receive, run at time t on dedup cache `table`.  The
\* protocol argument is not used by the code.
my_fishnode_l3_receive(table, t, l3frame, len, protocol, uninit) ==
    LET dest_addr == l3frame.dst
        node_addr == MyAddr
    IN  IF dest_addr = node_addr
        THEN ReceiveLocal(table, l3frame, len)
        ELSE IF dest_addr = ALL_NEIGHBORS
        THEN ReceiveBroadcast(table, t, l3frame, len, uninit)
        ELSE ReceiveOther(table, l3frame, len, uninit)

----------------------------------------------------------------------------
(* The state machine *)

\* The L3 addresses the node resolves, and the L2 address each answers with.
ArpAddrs == {2, 3}
L2Of(addr) == 100 + addr

\* The (callback, param) pairs given to resolve_fnaddr.
Callbacks == {1, 2}

\* An ARP cache slot without a mapping.
NoArpEntry == [l2addr |-> INVALID_L2, expiry |-> 0]

\* No lookup in progress.
NoPending == [queue |-> <<>>, retries |-> 0]

NoFrame == [ttl |-> 0, protocol |-> 0, packet_id |-> 0, src |-> 0, dst |-> 0,
            payload |-> <<>>]

NoCall == [op |-> "none"]

\* A step that runs none of the node's layer-3 handlers.
Idle ==
    /\ call' = NoCall
    /\ trace' = <<>>
    /\ buf' = NoFrame

RxKeys == Sources \X PacketIds

Init ==
    /\ hash_table = <<>>
    /\ now = 0
    /\ fwtable = {}
    /\ rxlog = [k \in RxKeys |-> NOT_FOUND]
    /\ call = NoCall
    /\ trace = <<>>
    /\ buf = NoFrame
    /\ arp_cache = [a \in ArpAddrs |-> NoArpEntry]
    /\ arp_pending = [a \in ArpAddrs |-> NoPending]

\* libfish hands a received layer-3 frame to fishnode_l3_receive.
Receive ==
    \E l3frame \in Frames, uninit \in PacketIds :
      \E len \in RxLens(l3frame) :
        LET key == <<l3frame.src, l3frame.packet_id>>
            out == my_fishnode_l3_receive(hash_table, now, l3frame, len,
                                          L2_PROTO_L3, uninit)
        IN  /\ call' = [op |-> "fishnode_l3_receive", frame |-> l3frame,
                        len |-> len, protocol |-> L2_PROTO_L3, at |-> now,
                        heard |-> rxlog[key]]
            /\ trace' = out.events
            /\ buf' = out.frame
            /\ hash_table' = out.table
            /\ rxlog' = IF l3frame.dst = ALL_NEIGHBORS
                        THEN [rxlog EXCEPT ![key] = now]
                        ELSE rxlog
            /\ UNCHANGED <<now, fwtable, arp_cache,
                    arp_pending>>

\* An application or a built-in protocol sends a layer-4 frame.
Send ==
    \E l4frame \in Payloads, dst_addr \in Dests, proto \in Protocols,
       ttl \in SendTtls, uninit \in PacketIds :
        /\ call' = [op |-> "fish_l3_send", l4frame |-> l4frame,
                    len |-> Len(l4frame), dst |-> dst_addr, proto |-> proto,
                    ttl |-> ttl, at |-> now]
        /\ trace' = my_fish_l3_send(l4frame, Len(l4frame), dst_addr, proto, ttl,
                                    uninit)
        /\ buf' = l4frame
        /\ UNCHANGED <<hash_table, now, fwtable, rxlog, arp_cache,
                    arp_pending>>

\* libfish calls fish_l3_forward on an already encapsulated frame.
Forward ==
    \E l3frame \in FwdFrames, uninit \in PacketIds :
        LET len == L3_HDR_LEN + Len(l3frame.payload)
        IN  /\ call' = [op |-> "fish_l3_forward", frame |-> l3frame,
                        len |-> len, at |-> now]
            /\ trace' = my_fish_l3_forward(l3frame, len, uninit)
            /\ buf' = l3frame
            /\ UNCHANGED <<hash_table, now, fwtable, rxlog, arp_cache,
                    arp_pending>>

\* The clock advances.
Tick ==
    /\ now + TickStep <= MaxTime
    /\ now' = now + TickStep
    /\ Idle
    /\ UNCHANGED <<hash_table, fwtable, rxlog, arp_cache,
                    arp_pending>>

\* A routing protocol installs a route (fish_fwd.add_fwtable_entry).
AddRoute ==
    \E r \in Routes \ fwtable :
        /\ fwtable' = fwtable \cup {r}
        /\ Idle
        /\ UNCHANGED <<hash_table, now, rxlog, arp_cache,
                    arp_pending>>

\* A routing protocol withdraws a route (fish_fwd.remove_fwtable_entry).
RemoveRoute ==
    \E r \in fwtable :
        /\ fwtable' = fwtable \ {r}
        /\ Idle
        /\ UNCHANGED <<hash_table, now, rxlog, arp_cache,
                    arp_pending>>

Next ==
    \/ Receive
    \/ Send
    \/ Forward
    \/ Tick
    \/ AddRoute
    \/ RemoveRoute

Spec == Init /\ [][Next]_vars

----------------------------------------------------------------------------
(* The dedup cache on its own: insert_entry and get_timestamp called with
   the (src, packet_id) of a header, in any order, as time goes by.  In
   CacheSpec rxlog[k] is the time the exact pair k = (src, 32-bit packet_id)
   was last given to insert_entry. *)

\* (3, 7) and (1027, 7) share a bucket; 7 and 65543 agree in their low 16
\* bits; (3, 8) lies in a bucket of its own.
CacheKeys == {<<3, 7>>, <<3, 65543>>, <<1027, 7>>, <<3, 8>>}

\* The values time(NULL) takes: entries get 1, ENTRY_TTL_SECONDS and
\* ENTRY_TTL_SECONDS + 1 seconds old.
Instants == {0, 1, ENTRY_TTL_SECONDS, ENTRY_TTL_SECONDS + 1}

CacheInit ==
    /\ hash_table = <<>>
    /\ now = 0
    /\ fwtable = {}
    /\ rxlog = [k \in CacheKeys |-> NOT_FOUND]
    /\ call = NoCall
    /\ trace = <<>>
    /\ buf = NoFrame
    /\ arp_cache = [a \in ArpAddrs |-> NoArpEntry]
    /\ arp_pending = [a \in ArpAddrs |-> NoPending]

\* insert_entry(header->src, header->packet_id)
CacheInsert ==
    \E k \in CacheKeys :
        /\ hash_table' = insert_entry(hash_table, now, k[1], U16(k[2]))
        /\ rxlog' = [rxlog EXCEPT ![k] = now]
        /\ call' = [op |-> "insert_entry", src |-> k[1], packet_id |-> k[2],
                    at |-> now,
                    prior |-> StoredTimestamp(hash_table, k[1], U16(k[2]))]
        /\ UNCHANGED <<now, fwtable, trace, buf, arp_cache,
                    arp_pending>>

\* get_timestamp(header->src, header->packet_id)
CacheLookup ==
    \E k \in CacheKeys :
        LET out == LookupEffect(hash_table, now, k[1], U16(k[2]))
        IN  /\ hash_table' = out.table
            /\ call' = [op |-> "get_timestamp", src |-> k[1],
                        packet_id |-> k[2], at |-> now,
                        timestamp |-> out.timestamp]
            /\ UNCHANGED <<now, fwtable, rxlog, trace, buf, arp_cache,
                           arp_pending>>

\* time(NULL) moves on.
CacheTick ==
    \E t \in Instants :
        /\ t > now
        /\ now' = t
        /\ Idle
        /\ UNCHANGED <<hash_table, fwtable, rxlog, arp_cache,
                    arp_pending>>

CacheNext ==
    \/ CacheInsert
    \/ CacheLookup
    \/ CacheTick

CacheSpec == CacheInit /\ [][CacheNext]_vars

----------------------------------------------------------------------------
(* The layer-3 handlers on any content of the dedup cache.  Under Spec the
   cache never gets an entry; HandlerSpec also stores pairs by calling
   insert_entry directly, so that the handler meets hits, misses and expired
   entries. *)

\* insert_entry(src, packet_id) called for a pair a received frame can carry.
PrimeCache ==
    \E k \in RxKeys :
        /\ hash_table' = insert_entry(hash_table, now, k[1], U16(k[2]))
        /\ call' = [op |-> "insert_entry", src |-> k[1], packet_id |-> k[2],
                    at |-> now]
        /\ trace' = <<>>
        /\ buf' = NoFrame
        /\ UNCHANGED <<now, fwtable, rxlog, arp_cache, arp_pending>>

HandlerNext ==
    \/ PrimeCache
    \/ Receive
    \/ CacheTick

HandlerSpec == CacheInit /\ [][HandlerNext]_vars

\* The three layer-3 entry points of the node on a cache that holds pairs.
UnicastNext ==
    \/ PrimeCache
    \/ Receive
    \/ Send
    \/ Forward
    \/ Tick

UnicastSpec == CacheInit /\ [][UnicastNext]_vars

----------------------------------------------------------------------------
(* The forwarding table on its own: routes added and removed by key, and
   looked up, in any order.  In FwdSpec every entry of fwtable carries the
   key add_fwtable_entry returned for it and the caller's user_data. *)

\* A host route to node 2 with a poor metric, and two routes with a shorter
\* prefix that covers nodes 2 and 7, with metrics 1 and 2.
FwdRoutes ==
    { [dst |-> 2, prefix_length |-> AddrBits, next_hop |-> 2, metric |-> 5],
      [dst |-> 0, prefix_length |-> AddrBits - 8, next_hop |-> 4,
       metric |-> 1],
      [dst |-> 0, prefix_length |-> AddrBits - 8, next_hop |-> 5,
       metric |-> 2] }

\* The keys add_fwtable_entry can return.
RouteKeys == {1, 2, 3}

UserData == {11, 12}

\* Node 2 is covered by every route, node 7 by the two shorter ones, node
\* 300 by none.
LookupAddrs == {2, 7, 300}

FwdInit ==
    /\ hash_table = <<>>
    /\ now = 0
    /\ fwtable = {}
    /\ rxlog = [k \in RxKeys |-> NOT_FOUND]
    /\ call = NoCall
    /\ trace = <<>>
    /\ buf = NoFrame
    /\ arp_cache = [a \in ArpAddrs |-> NoArpEntry]
    /\ arp_pending = [a \in ArpAddrs |-> NoPending]

\* key = fish_fwd.add_fwtable_entry(dst, prefix_length, next_hop, metric,
\* type, user_data): the key is one no stored entry has.
FwdAdd ==
    \E route \in FwdRoutes, user_data \in UserData :
      \E key \in RouteKeys \ {e.key : e \in fwtable} :
        /\ fwtable' = add_fwtable_entry(fwtable, key, route, user_data)
        /\ call' = [op |-> "add_fwtable_entry", route |-> route,
                    user_data |-> user_data, key |-> key]
        /\ UNCHANGED <<hash_table, now, rxlog, trace, buf, arp_cache,
                    arp_pending>>

\* fish_fwd.remove_fwtable_entry(route_key), with any key.
FwdRemove ==
    \E route_key \in RouteKeys :
        LET out == remove_fwtable_entry(fwtable, route_key)
        IN  /\ fwtable' = out.table
            /\ call' = [op |-> "remove_fwtable_entry", key |-> route_key,
                        result |-> out.result]
            /\ UNCHANGED <<hash_table, now, rxlog, trace, buf, arp_cache,
                    arp_pending>>

\* fish_fwd.longest_prefix_match(addr)
FwdLookup ==
    \E addr \in LookupAddrs :
        /\ call' = [op |-> "longest_prefix_match", addr |-> addr,
                    next_hop |-> longest_prefix_match(addr)]
        /\ UNCHANGED <<hash_table, now, fwtable, rxlog, trace, buf, arp_cache,
                    arp_pending>>

FwdNext ==
    \/ FwdAdd
    \/ FwdRemove
    \/ FwdLookup

FwdSpec == FwdInit /\ [][FwdNext]_vars

----------------------------------------------------------------------------
(* libfish's address resolution: the ARP cache, the lookups in progress,
   their retry timer and the responses. *)

ArpRequest(l3addr) == [op |-> "send_arp_request", addr |-> l3addr]

ArpCallback(cb, l2addr) ==
    [op |-> "arp_resolution_cb", cb |-> cb, l2addr |-> l2addr]

\* cb(l2addr, param) for every waiting callback, in the order of the queue.
CallAll(queue, l2addr) ==
    [i \in 1..Len(queue) |-> ArpCallback(queue[i], l2addr)]

\* The mapping of addr is cached and has not expired.
Cached(cache, t, addr) ==
    cache[addr].l2addr # INVALID_L2 /\ t < cache[addr].expiry

\* Mutant of resolve_fnaddr: every call for an address not cached sends a
\* request.
resolve_fnaddr_AlwaysAsks(cache, pending, t, addr, cb) ==
    IF Cached(cache, t, addr)
    THEN [pending |-> pending,
          events |-> <<ArpCallback(cb, cache[addr].l2addr)>>]
    ELSE IF pending[addr].queue # <<>>
    THEN [pending |-> [pending EXCEPT ![addr].queue = Append(@, cb)],
          events |-> <<ArpRequest(addr)>>]
    ELSE [pending |-> [pending EXCEPT
                          ![addr] = [queue |-> <<cb>>,
                                     retries |-> RetryBudget]],
          events |-> <<ArpRequest(addr)>>]

\* Mutant of resolve_fnaddr: a request is sent although the mapping is
\* cached.
resolve_fnaddr_HitAlsoAsks(cache, pending, t, addr, cb) ==
    IF Cached(cache, t, addr)
    THEN [pending |-> pending,
          events |-> <<ArpCallback(cb, cache[addr].l2addr),
                       ArpRequest(addr)>>]
    ELSE IF pending[addr].queue # <<>>
    THEN [pending |-> [pending EXCEPT ![addr].queue = Append(@, cb)],
          events |-> <<>>]
    ELSE [pending |-> [pending EXCEPT
                          ![addr] = [queue |-> <<cb>>,
                                     retries |-> RetryBudget]],
          events |-> <<ArpRequest(addr)>>]

\* fish_arp.resolve_fnaddr(addr, cb, param)
resolve_fnaddr(cache, pending, t, addr, cb) ==
    IF Cached(cache, t, addr)
    THEN [pending |-> pending,
          events |-> <<ArpCallback(cb, cache[addr].l2addr)>>]
    ELSE IF pending[addr].queue # <<>>
    THEN [pending |-> [pending EXCEPT ![addr].queue = Append(@, cb)],
          events |-> <<>>]
    ELSE [pending |-> [pending EXCEPT
                          ![addr] = [queue |-> <<cb>>,
                                     retries |-> RetryBudget]],
          events |-> <<ArpRequest(addr)>>]

\* Mutant of arp_retry: the request is repeated for ever.
arp_retry_NeverGivesUp(pending, addr) ==
    [pending |-> pending, events |-> <<ArpRequest(addr)>>]

\* The retry timer of the lookup for addr expires: the request is sent
\* again while retries are left; after the last one the lookup fails, every
\* waiting callback gets the invalid L2 address and the lookup is dropped.
arp_retry(pending, addr) ==
    IF pending[addr].retries > 0
    THEN [pending |-> [pending EXCEPT ![addr].retries = @ - 1],
          events |-> <<ArpRequest(addr)>>]
    ELSE [pending |-> [pending EXCEPT ![addr] = NoPending],
          events |-> CallAll(pending[addr].queue, INVALID_L2)]

ArpInit ==
    /\ hash_table = <<>>
    /\ now = 0
    /\ fwtable = {}
    /\ rxlog = [k \in RxKeys |-> NOT_FOUND]
    /\ call = NoCall
    /\ trace = <<>>
    /\ buf = NoFrame
    /\ arp_cache = [a \in ArpAddrs |-> NoArpEntry]
    /\ arp_pending = [a \in ArpAddrs |-> NoPending]

\* The layer-2 code asks for the L2 address of addr.
ArpResolve ==
    \E addr \in ArpAddrs, cb \in Callbacks :
        LET out == resolve_fnaddr(arp_cache, arp_pending, now, addr, cb)
        IN  /\ Len(arp_pending[addr].queue) < MaxWaiting
            /\ arp_pending' = out.pending
            /\ trace' = out.events
            /\ call' = [op |-> "resolve_fnaddr", addr |-> addr, cb |-> cb,
                        at |-> now, entry |-> arp_cache[addr],
                        queued |-> arp_pending[addr].queue]
            /\ UNCHANGED <<hash_table, now, fwtable, rxlog, buf, arp_cache>>

\* The retry timer of the lookup for addr expires.
ArpRetryTimer(addr) ==
    LET out == arp_retry(arp_pending, addr)
    IN  /\ arp_pending[addr].queue # <<>>
        /\ arp_pending' = out.pending
        /\ trace' = out.events
        /\ call' = [op |-> "arp_retry_timer", addr |-> addr, at |-> now,
                    queued |-> arp_pending[addr].queue,
                    retries |-> arp_pending[addr].retries]
        /\ UNCHANGED <<hash_table, now, fwtable, rxlog, buf, arp_cache>>

\* An ARP response for addr arrives: the mapping is cached (add_arp_entry),
\* every waiting callback gets the L2 address and the lookup is dropped.
ArpResponse ==
    \E addr \in ArpAddrs :
        /\ arp_cache' = [arp_cache EXCEPT
                            ![addr] = [l2addr |-> L2Of(addr),
                                       expiry |-> now + ArpTimeout]]
        /\ arp_pending' = [arp_pending EXCEPT ![addr] = NoPending]
        /\ trace' = CallAll(arp_pending[addr].queue, L2Of(addr))
        /\ call' = [op |-> "arp_received", addr |-> addr, at |-> now,
                    l2addr |-> L2Of(addr),
                    queued |-> arp_pending[addr].queue]
        /\ UNCHANGED <<hash_table, now, fwtable, rxlog, buf>>

ArpNext ==
    \/ ArpResolve
    \/ \E addr \in ArpAddrs : ArpRetryTimer(addr)
    \/ ArpResponse
    \/ Tick

ArpSpec == ArpInit /\ [][ArpNext]_vars

\* The event loop runs every timer that is due.
ArpLiveSpec == ArpSpec /\ \A addr \in ArpAddrs : WF_vars(ArpRetryTimer(addr))

----------------------------------------------------------------------------
(* Reading the trace of the last handler invocation *)

Events(op) == SelectSeq(trace, LAMBDA e : e.op = op)
Count(op) == Len(Events(op))

\* Frames f and g are the same packet: they agree in everything but the ttl.
SamePacket(f, g) == [f EXCEPT !.ttl = 0] = [g EXCEPT !.ttl = 0]

\* The calls of the given kind made for the frame the handler was given.
EventsFor(op) ==
    SelectSeq(trace, LAMBDA e : e.op = op /\ SamePacket(e.frame, call.frame))

IsReceive == call.op = "fishnode_l3_receive"
RxLocal == IsReceive /\ call.frame.dst = MyAddr
RxBroadcast == IsReceive /\ call.frame.dst = ALL_NEIGHBORS
RxOther == IsReceive /\ call.frame.dst \notin {MyAddr, ALL_NEIGHBORS}

\* A broadcast with the received frame's (src, packet_id) reached the
\* handler before, at most ENTRY_TTL_SECONDS ago.
HeardWithin ==
    call.heard # NOT_FOUND /\ call.at - call.heard <= ENTRY_TTL_SECONDS
\* No such broadcast reached the handler in the last ENTRY_TTL_SECONDS.
FreshRx == ~HeardWithin

\* The received frame with its ttl one lower.
Decremented == [call.frame EXCEPT !.ttl = call.frame.ttl - 1]

\* The upward delivery local delivery makes of the received frame.
UpwardDelivery ==
    [op |-> "fish_l4_receive", l4frame |-> call.frame.payload,
     off |-> L3_HDR_LEN, len |-> call.len - L3_HDR_LEN,
     proto |-> call.frame.protocol, src |-> call.frame.src]

----------------------------------------------------------------------------
(* Claims *)

\* C1: a received broadcast frame whose (src, packet_id) was not seen in the
\* last 120 s and whose ttl is > 1 is delivered to layer 4 exactly once and
\* handed to fish_l3_forward exactly once, with its ttl one lower.
C1_FreshBroadcastDeliveredAndFlooded ==
    (RxBroadcast /\ FreshRx /\ call.frame.ttl > 1) =>
        /\ Events("fish_l4_receive") = <<UpwardDelivery>>
        /\ EventsFor("fish_l3_forward") = <<L3Forward(Decremented, call.len)>>

\* C2: a received broadcast frame whose (src, packet_id) was already
\* received in the last 120 s is dropped: no delivery to layer 4, no
\* forward, no layer-2 send, no FCMP error.
C2_DuplicateBroadcastDropped ==
    (RxBroadcast /\ HeardWithin) =>
        /\ Count("fish_l4_receive") = 0
        /\ Count("fish_l3_forward") = 0
        /\ Count("fish_l2_send") = 0
        /\ Count("send_fcmp_response") = 0
        /\ Count("fish_l3_send") = 0

C2_Witness ==
    RxBroadcast /\ HeardWithin /\ call.frame.ttl > 1 /\ call.heard < call.at

\* C3: a first-seen broadcast frame whose ttl is <= 1 is delivered to layer
\* 4 exactly once and is not flooded again.
C3_HopExhaustedBroadcastDelivered ==
    (RxBroadcast /\ FreshRx /\ call.frame.ttl <= 1) =>
        /\ Events("fish_l4_receive") = <<UpwardDelivery>>
        /\ Count("fish_l3_forward") = 0
        /\ Count("fish_l2_send") = 0

\* C4: a received frame addressed to this node is delivered to layer 4
\* exactly once, as (bytes after the header, len - header size,
\* header.protocol, header.src); nothing is forwarded, sent or reported.
C4_LocalDelivery ==
    RxLocal => trace = <<UpwardDelivery>>

C4_Witness ==
    RxLocal /\ Count("fish_l4_receive") = 1
        /\ call.frame.protocol # call.protocol

\* C5: a received frame for another node (not this node, not broadcast)
\* with ttl 0 is not sent on, and exactly one FCMP error, TTL exceeded, is
\* requested for it.
C5_TtlZeroReported ==
    (RxOther /\ call.frame.ttl = 0) =>
        /\ Len(EventsFor("fish_l2_send")) = 0
        /\ Events("send_fcmp_response") =
               <<FcmpResponse(call.frame, call.len, FCMP_TTL_EXCEEDED)>>

\* C6: a received frame for another node that no forwarding-table entry
\* covers is not sent on, and exactly one FCMP error, no route, is
\* requested for it.  Stated for ttl >= 1: C5 covers ttl 0.
C6_NoRouteReported ==
    (RxOther /\ call.frame.ttl >= 1
       /\ longest_prefix_match(call.frame.dst) = 0) =>
        /\ Len(EventsFor("fish_l2_send")) = 0
        /\ Len(EventsFor("send_fcmp_response")) = 1
        /\ EventsFor("send_fcmp_response")[1].err = FCMP_NO_ROUTE

\* C7: a received frame for another node with ttl # 0 (ttl 1 included) has
\* its ttl decremented by 1 and is handed to fish_l3_forward.
C7_NonZeroTtlForwarded ==
    (RxOther /\ call.frame.ttl # 0) =>
        /\ buf = Decremented
        /\ EventsFor("fish_l3_forward") = <<L3Forward(Decremented, call.len)>>

\* C8: whenever the receive handler passes the received packet on, to
\* fish_l3_forward and from there to fish_l2_send, the packet carries the
\* received ttl minus 1, and that is never below 0: a received ttl of 0 is
\* never decremented (to 255).
C8_TtlDecrementedOnce ==
    IsReceive =>
        \A i \in 1..Len(trace) :
            (trace[i].op \in {"fish_l3_forward", "fish_l2_send"}
               /\ SamePacket(trace[i].frame, call.frame)) =>
                /\ trace[i].frame.ttl = call.frame.ttl - 1
                /\ call.frame.ttl # 0

C8_Witness ==
    IsReceive /\ Len(EventsFor("fish_l3_forward")) = 1
        /\ Len(EventsFor("fish_l2_send")) = 1

\* C9: fish_l2_send is never called with a frame whose ttl is 0 and whose
\* destination is neither this node nor the broadcast address, whichever of
\* receive, send and forward runs.
C9_NoLinkSendOfExhaustedFrame ==
    \A i \in 1..Len(trace) :
        trace[i].op = "fish_l2_send" =>
            ~ ( trace[i].frame.ttl = 0
                /\ trace[i].frame.dst \notin {MyAddr, ALL_NEIGHBORS} )

C9_Witness ==
    /\ call.op = "fish_l3_forward"
    /\ call.frame.ttl = 0
    /\ call.frame.dst \notin {MyAddr, ALL_NEIGHBORS}
    /\ longest_prefix_match(call.frame.dst) # 0
    /\ Len(EventsFor("fish_l2_send")) = 0

\* send_fcmp_response is asked to answer a broadcast or an FCMP packet.
Unanswerable(e) ==
    /\ e.op = "send_fcmp_response"
    /\ (e.frame.dst = ALL_NEIGHBORS \/ e.frame.protocol = FCMP_PROTO)

\* C10: my_fish_l3_forward requests an FCMP error also for broadcast and
\* FCMP frames, and no error packet is transmitted for them: once such a
\* request is made, nothing is sent (no fish_l3_send, no fish_l2_send).
C10_NoErrorForBroadcastOrFcmp ==
    \A i \in 1..Len(trace) :
        Unanswerable(trace[i]) =>
            \A j \in (i + 1)..Len(trace) :
                trace[j].op \notin {"fish_l3_send", "fish_l2_send"}

C10_Witness ==
    /\ call.op = "fish_l3_forward"
    /\ call.frame.dst = ALL_NEIGHBORS
    /\ call.frame.protocol # FCMP_PROTO
    /\ Unanswerable(trace[Len(trace)])
    /\ trace[Len(trace)].frame = call.frame

----------------------------------------------------------------------------
(* Claims C11 to C20 *)

IsForward == call.op = "fish_l3_forward"
IsSend == call.op = "fish_l3_send"

\* The positions of the calls of the given kind in the trace.
At(op) == {i \in 1..Len(trace) : trace[i].op = op}

\* The entries the dedup cache holds.
CacheEntries ==
    UNION { {hash_table[i][k] : k \in 1..Len(hash_table[i])} :
            i \in DOMAIN hash_table }

\* C11: the receive handler changes nothing of the frame it is given but the
\* ttl, and passes on that frame only; my_fish_l3_forward leaves the frame
\* as it is and passes it on unchanged; what the handlers leave behind, the
\* dedup cache, holds copies of src and packet_id and no frame.
C11_OnlyTtlWritten ==
    /\ IsReceive =>
          /\ SamePacket(buf, call.frame)
          /\ \A i \in At("fish_l3_forward") \cup At("fish_l2_send") :
                 trace[i].frame.protocol = call.frame.protocol =>
                     SamePacket(trace[i].frame, call.frame)
    /\ IsForward =>
          /\ buf = call.frame
          /\ \A i \in At("fish_l2_send") :
                 trace[i].frame.protocol = call.frame.protocol =>
                     trace[i].frame = call.frame
    /\ \A e \in CacheEntries : DOMAIN e = {"src", "packet_id", "timestamp"}

C11_Witness ==
    /\ IsReceive
    /\ buf.ttl # call.frame.ttl
    /\ Len(EventsFor("fish_l2_send")) = 1

\* C12: after a broadcast frame is received, whether judged a duplicate or
\* new, the dedup cache holds an entry for its (src, packet_id) whose
\* timestamp is the time of the reception.
C12_BroadcastRecorded ==
    RxBroadcast =>
        \E e \in CacheEntries :
            /\ e.src = call.frame.src
            /\ e.packet_id = U16(call.frame.packet_id)
            /\ e.timestamp = call.at

IsLookup == call.op = "get_timestamp"

Max(S) == CHOOSE x \in S : \A y \in S : x >= y

\* The time insert_entry last stored the looked-up key as the cache keys it,
\* (src, low 16 bits of packet_id); NOT_FOUND if it never did.
LastStored ==
    Max({rxlog[k] : k \in {j \in CacheKeys :
                              /\ j[1] = call.src
                              /\ U16(j[2]) = U16(call.packet_id)}})

\* C13 as stated: get_timestamp reports an entry as seen only if it is
\* younger than ENTRY_TTL_SECONDS; an entry exactly that old is not found.
C13_ExpiresAtTtl ==
    IsLookup =>
        call.timestamp =
            IF LastStored # NOT_FOUND
               /\ call.at - LastStored < ENTRY_TTL_SECONDS
            THEN LastStored ELSE NOT_FOUND

\* C13 amended: get_timestamp reports an entry as seen while its age is at
\* most ENTRY_TTL_SECONDS, the age of exactly ENTRY_TTL_SECONDS included;
\* it reports not-found only for an older or absent entry.
C13_ExpiresAfterTtl ==
    IsLookup =>
        call.timestamp =
            IF LastStored # NOT_FOUND
               /\ call.at - LastStored <= ENTRY_TTL_SECONDS
            THEN LastStored ELSE NOT_FOUND

C13_Witness ==
    /\ IsLookup
    /\ LastStored # NOT_FOUND
    /\ call.at - LastStored = ENTRY_TTL_SECONDS
    /\ call.timestamp = LastStored

\* C14: get_timestamp reports a pair as seen only if insert_entry was given
\* that exact (src, 32-bit packet_id) pair.
C14_ExactPair ==
    (IsLookup /\ call.timestamp # NOT_FOUND) =>
        rxlog[<<call.src, call.packet_id>>] # NOT_FOUND

\* The ttl my_fish_l3_send is to put in the header for a requested ttl.
SendTtl(ttl) == IF ttl = 0 \/ ttl > MAX_TTL THEN MAX_TTL ELSE ttl

\* C15: the frame my_fish_l3_send builds carries MAX_TTL when the requested
\* ttl is 0 or above MAX_TTL and the requested ttl otherwise, so a ttl in
\* 1..MAX_TTL.
C15_SendTtlClamped ==
    \A i \in At("fish_l3_send") :
        /\ i < Len(trace)
        /\ trace[i + 1].op = "fish_l3_forward"
        /\ trace[i + 1].frame.ttl = SendTtl(trace[i].ttl)
        /\ trace[i + 1].frame.ttl \in 1..MAX_TTL

C15_Witness ==
    IsSend /\ call.ttl > MAX_TTL /\ trace[2].frame.ttl = MAX_TTL

\* C16: my_fish_l3_send calls fish_l3_forward exactly once with the frame it
\* builds: length = header size + len, dst = dst_addr, src = this node,
\* protocol = proto, payload = the caller's; the caller's buffer is unchanged.
C16_SendBuildsFrame ==
    IsSend =>
        /\ trace[1] = L3Send(call.l4frame, call.len, call.dst, call.proto,
                             call.ttl)
        /\ trace[2].op = "fish_l3_forward"
        /\ trace[2].len = L3_HDR_LEN + call.len
        /\ trace[2].frame.dst = call.dst
        /\ trace[2].frame.src = MyAddr
        /\ trace[2].frame.protocol = call.proto
        /\ trace[2].frame.payload = call.l4frame
        /\ Cardinality({i \in At("fish_l3_forward") :
                           trace[i].frame.payload = call.l4frame}) = 1
        /\ Cardinality(At("fish_l3_forward")) = Cardinality(At("fish_l3_send"))
        /\ buf = call.l4frame

C16_Witness ==
    IsSend /\ call.dst = 2 /\ Count("fish_l2_send") = 1

\* C17: a packet my_fish_l3_send originates carries a packet_id different
\* from that of the packets the node originated before; here, of the one it
\* originated just before.
C17_PacketIdsUnique ==
    [][ (IsSend /\ call'.op = "fish_l3_send") =>
            trace'[2].frame.packet_id # trace[2].frame.packet_id ]_vars

\* The frames handed to fish_l3_forward that are addressed to everybody.
BroadcastForwards ==
    {i \in At("fish_l3_forward") : trace[i].frame.dst = ALL_NEIGHBORS}

\* The call at position i is followed by exactly one fish_l2_send of its
\* frame, to the all-neighbours address.
SentToAll(i) ==
    LET sends == {j \in At("fish_l2_send") :
                     j > i /\ trace[j].frame = trace[i].frame}
    IN  /\ Cardinality(sends) = 1
        /\ \A j \in sends : trace[j].next_hop = ALL_NEIGHBORS

\* No no-route error is requested after position i.
NoNoRouteAfter(i) ==
    \A j \in At("send_fcmp_response") : j > i => trace[j].err # FCMP_NO_ROUTE

\* C18 as stated: my_fish_l3_forward sends every broadcast frame to the
\* all-neighbours address, whatever the forwarding table holds, and never
\* requests a no-route error for it.
C18_BroadcastAlwaysSent ==
    \A i \in BroadcastForwards : SentToAll(i) /\ NoNoRouteAfter(i)

\* C18 amended: so it does for every broadcast frame whose ttl is not 0; a
\* broadcast frame with ttl 0 is not sent; no broadcast frame causes a
\* no-route error.
C18_BroadcastSentUnlessExhausted ==
    \A i \in BroadcastForwards :
        /\ trace[i].frame.ttl # 0 => SentToAll(i)
        /\ trace[i].frame.ttl = 0 => Count("fish_l2_send") = 0
        /\ NoNoRouteAfter(i)

C18_Witness ==
    /\ IsForward
    /\ call.frame.dst = ALL_NEIGHBORS
    /\ call.frame.ttl # 0
    /\ longest_prefix_match(ALL_NEIGHBORS) \notin {0, ALL_NEIGHBORS}
    /\ SentToAll(1)

\* C19 as stated: fish_l2_send is never called with a frame whose
\* destination is this node.
C19_SelfNeverLinkSent ==
    \A i \in At("fish_l2_send") : trace[i].frame.dst # MyAddr

\* C19 amended: the receive handler makes no fish_l2_send for a received
\* frame addressed to this node; my_fish_l3_forward (also when called by
\* my_fish_l3_send) does call fish_l2_send for a frame addressed to this
\* node, always with this node as the next hop, whatever the table holds.
C19_SelfSentToSelf ==
    /\ RxLocal => Count("fish_l2_send") = 0
    /\ \A i \in At("fish_l2_send") :
           trace[i].frame.dst = MyAddr => trace[i].next_hop = MyAddr
    /\ \A i \in At("fish_l3_forward") :
           trace[i].frame.dst = MyAddr =>
               \E j \in At("fish_l2_send") :
                   j > i /\ trace[j].frame = trace[i].frame

C19_Witness ==
    /\ IsForward
    /\ call.frame.dst = MyAddr
    /\ longest_prefix_match(MyAddr) \notin {0, MyAddr}
    /\ Events("fish_l2_send") =
           <<L2Send(call.frame, MyAddr, call.len, L2_PROTO_L3)>>

\* C20: a received frame shorter than the header is dropped: nothing is
\* delivered, forwarded or sent, no error is requested, the dedup cache is
\* not written.
C20_ShortFrameDropped ==
    (IsReceive /\ call.len < L3_HDR_LEN) =>
        /\ Count("fish_l4_receive") = 0
        /\ Count("fish_l3_forward") = 0
        /\ Count("fish_l2_send") = 0
        /\ Count("send_fcmp_response") = 0
        /\ Count("insert_entry") = 0

----------------------------------------------------------------------------
(* Claims C21 to C30 *)

\* The stored entries whose prefix covers the looked-up address.
Covering == {e \in fwtable : Covers(e, call.addr)}

\* C21: longest_prefix_match(addr) returns the next hop of a stored entry
\* covering addr that has the longest prefix among the covering entries and,
\* among those of that prefix length, the lowest metric; it returns 0 only
\* when no stored entry covers addr.
C21_LongestPrefixThenMetric ==
    call.op = "longest_prefix_match" =>
        /\ (call.next_hop = 0) <=> (Covering = {})
        /\ Covering # {} =>
               \E e \in Covering :
                   /\ call.next_hop = e.next_hop
                   /\ \A o \in Covering :
                          /\ o.prefix_length <= e.prefix_length
                          /\ o.prefix_length = e.prefix_length =>
                                 o.metric >= e.metric

\* The longer prefix wins against a better metric, and of two routes of the
\* same prefix the one with the lower metric is chosen.
C21_Witness ==
    /\ call.op = "longest_prefix_match"
    /\ call.addr = 2
    /\ call.next_hop = 2
    /\ {e.next_hop : e \in Covering} = {2, 4, 5}

\* C22: remove_fwtable_entry with a key of no stored entry fails with
\* UnknownRouteKey and leaves the table as it is; with the key of a stored
\* entry it removes that entry and no other and returns its user_data.
C22_RemoveByKey ==
    [][ call'.op = "remove_fwtable_entry" =>
            LET live == {e \in fwtable : e.key = call'.key}
            IN  IF live = {}
                THEN /\ call'.result = [error |-> "UnknownRouteKey"]
                     /\ fwtable' = fwtable
                ELSE \E e \in live :
                         /\ live = {e}
                         /\ fwtable' = fwtable \ {e}
                         /\ call'.result = [user_data |-> e.user_data] ]_vars

C22_Witness ==
    /\ call.op = "remove_fwtable_entry"
    /\ call.result = [error |-> "UnknownRouteKey"]
    /\ fwtable # {}

IsResolve == call.op = "resolve_fnaddr"

\* When resolve_fnaddr was called the mapping was cached and not expired.
HadEntry == call.entry.l2addr # INVALID_L2 /\ call.at < call.entry.expiry

\* The last step ended a lookup: a response came, or the retry timer expired
\* with no retry left.
Settled ==
    \/ call.op = "arp_received"
    \/ call.op = "arp_retry_timer" /\ call.retries = 0

\* The callbacks made in the last step, in order.
CallbacksMade == Events("arp_resolution_cb")

\* C23: of the resolve_fnaddr calls for one address that is not cached, the
\* first sends one request and each later one, made while the lookup is in
\* progress, sends none and joins the queue; no callback fires before the
\* lookup settles, and then every waiting callback fires once, in the order
\* of registration.
C23_OneRequestCallbacksInOrder ==
    /\ (IsResolve /\ ~HadEntry) =>
           /\ CallbacksMade = <<>>
           /\ Count("send_arp_request") =
                  (IF call.queued = <<>> THEN 1 ELSE 0)
           /\ arp_pending[call.addr].queue = Append(call.queued, call.cb)
    /\ (call.op = "arp_retry_timer" /\ call.retries > 0) =>
           /\ CallbacksMade = <<>>
           /\ arp_pending[call.addr].queue = call.queued
    /\ Settled =>
           /\ Len(CallbacksMade) = Len(call.queued)
           /\ \A i \in 1..Len(call.queued) :
                  CallbacksMade[i].cb = call.queued[i]
           /\ arp_pending[call.addr].queue = <<>>

\* Two callbacks were waiting for one lookup and both have been called.
C23_Witness ==
    /\ Settled
    /\ Len(call.queued) = 2
    /\ Len(CallbacksMade) = 2
    /\ call.queued[1] # call.queued[2]

\* C24: resolve_fnaddr for an address neither cached nor being looked up
\* sends a request and calls nothing back; a lookup in progress always comes
\* to an end; when it ends because the retries are used up, each waiting
\* callback is called once with the invalid L2 address and the lookup is
\* dropped.
C24_FailureCallsBackInvalid ==
    /\ [](/\ (IsResolve /\ ~HadEntry /\ call.queued = <<>>) =>
                 trace = <<ArpRequest(call.addr)>>
          /\ (call.op = "arp_retry_timer" /\ call.retries = 0) =>
                 /\ trace = CallAll(call.queued, INVALID_L2)
                 /\ arp_pending[call.addr] = NoPending)
    /\ \A addr \in ArpAddrs :
           (arp_pending[addr].queue # <<>>) ~> (arp_pending[addr].queue = <<>>)

C24_Witness ==
    /\ call.op = "arp_retry_timer"
    /\ call.retries = 0
    /\ trace = <<ArpCallback(call.queued[1], INVALID_L2)>>
    /\ arp_cache[call.addr] = NoArpEntry

\* C25: resolve_fnaddr for an address whose mapping is cached and has not
\* expired calls the callback once, with the cached L2 address, within the
\* call, and sends no request.
C25_CachedCallsBackAtOnce ==
    (IsResolve /\ HadEntry) =>
        /\ trace = <<ArpCallback(call.cb, call.entry.l2addr)>>
        /\ arp_pending[call.addr].queue = call.queued

\* A mapping that expired exists next to one that is used.
C25_Witness ==
    /\ IsResolve
    /\ HadEntry
    /\ trace = <<ArpCallback(call.cb, L2Of(call.addr))>>
    /\ call.at > 0

\* C26: for a received broadcast frame the handler calls get_timestamp
\* once, for the frame's (src, packet_id), before anything else it does: if
\* nothing follows the lookup the frame is left as it was received.
C26_OneLookupFirst ==
    RxBroadcast =>
        /\ Count("get_timestamp") = 1
        /\ trace[1].op = "get_timestamp"
        /\ trace[1].src = call.frame.src
        /\ trace[1].packet_id = U16(call.frame.packet_id)
        /\ Len(trace) = 1 => buf = call.frame

\* A broadcast frame that was delivered and forwarded after the lookup.
C26_Witness ==
    /\ RxBroadcast
    /\ trace[1].op = "get_timestamp"
    /\ Count("fish_l4_receive") = 1
    /\ Count("fish_l2_send") = 1
    /\ buf.ttl # call.frame.ttl

\* The frames with ttl 0 for another node that my_fish_l3_forward is given.
ExhaustedForwards ==
    {i \in At("fish_l3_forward") :
        trace[i].frame.ttl = 0 /\ trace[i].frame.dst # MyAddr}

\* C27: given a frame with ttl 0 for another node, my_fish_l3_forward
\* requests the TTL-exceeded error at once, whether a route exists or not:
\* it requests no no-route error for the frame and does not look its
\* destination up.
C27_TtlCheckedBeforeLookup ==
    \A i \in ExhaustedForwards :
        /\ i < Len(trace)
        /\ trace[i + 1] = FcmpResponse(trace[i].frame, trace[i].len,
                                       FCMP_TTL_EXCEEDED)
        /\ \A j \in At("send_fcmp_response") :
               trace[j].frame = trace[i].frame =>
                   trace[j].err = FCMP_TTL_EXCEEDED
        /\ \A j \in At("longest_prefix_match") :
               trace[j].addr # trace[i].frame.dst

C27_Witness ==
    /\ IsForward
    /\ call.frame.ttl = 0
    /\ call.frame.dst = 2
    /\ longest_prefix_match(2) = 0
    /\ trace[2] = FcmpResponse(call.frame, call.len, FCMP_TTL_EXCEEDED)

\* What my_fish_l3_forward, called at position i, did with its frame: the
\* error requests and the link sends made for that frame.
OutcomesOf(i) ==
    {j \in At("send_fcmp_response") \cup At("fish_l2_send") :
        j > i /\ trace[j].frame = trace[i].frame}

\* C28: every call of my_fish_l3_forward does one thing with its frame and
\* no second: it requests a TTL-exceeded error, or a no-route error, or
\* makes one fish_l2_send of the frame with the length it was given.
C28_OneOutcomePerForward ==
    \A i \in At("fish_l3_forward") :
        /\ Cardinality(OutcomesOf(i)) = 1
        /\ \A j \in OutcomesOf(i) :
               /\ trace[j].len = trace[i].len
               /\ trace[j].op = "send_fcmp_response" =>
                      trace[j].err \in {FCMP_TTL_EXCEEDED, FCMP_NO_ROUTE}

\* An error was requested for the frame, and the error packet was sent.
C28_Witness ==
    /\ IsForward
    /\ Count("send_fcmp_response") = 1
    /\ Count("fish_l2_send") = 1
    /\ Count("fish_l3_forward") = 2

\* C29: the handling of one frame sends at most one error packet, also when
\* the error packet itself has no route.
C29_AtMostOneErrorPacket ==
    (IsReceive \/ IsForward) => Count("fish_l3_send") <= 1

\* The error packet had no route and no error was sent for it.
C29_Witness ==
    /\ IsReceive
    /\ Count("send_fcmp_response") = 2
    /\ Count("fish_l3_send") = 1
    /\ Count("fish_l2_send") = 0

\* The (src, packet_id) pairs stored in a table.
KeysOf(table) ==
    UNION { {<<table[i][k].src, table[i][k].packet_id>> :
                k \in 1..Len(table[i])} : i \in DOMAIN table }

----------------------------------------------------------------------------
(* Claims C31 to C39 *)

IsInsert == call.op = "insert_entry"

\* The key the cache functions are given for a pair of the header.
CacheKey(k) == <<k[1], U16(k[2])>>

\* The keys insert_entry has been given so far.
KeysInserted == {CacheKey(k) : k \in {j \in CacheKeys : rxlog[j] # NOT_FOUND}}

\* C31: insert_entry for a pair stamps it with the time of the call,
\* whether the pair was stored before or not: from then on get_timestamp
\* reports it as seen at every time within ENTRY_TTL_SECONDS of this call,
\* however old the replaced entry was.
C31_ReinsertRefreshes ==
    IsInsert =>
        \A t \in Instants :
            (t >= call.at /\ t - call.at <= ENTRY_TTL_SECONDS) =>
                get_timestamp(hash_table, t, call.src, U16(call.packet_id))
                    = call.at

\* The pair was stored at t1, more than ENTRY_TTL_SECONDS ago, and has just
\* been inserted again.
C31_Witness ==
    /\ IsInsert
    /\ call.prior # NOT_FOUND
    /\ call.at - call.prior > ENTRY_TTL_SECONDS
    /\ get_timestamp(hash_table, now, call.src, U16(call.packet_id)) = now

\* C32: every pair given to insert_entry at most ENTRY_TTL_SECONDS ago is
\* found by get_timestamp, whatever was inserted after it into the same
\* bucket.
C32_ChainedWithoutLoss ==
    \A k \in CacheKeys :
        (rxlog[k] # NOT_FOUND /\ now - rxlog[k] <= ENTRY_TTL_SECONDS) =>
            get_timestamp(hash_table, now, k[1], U16(k[2])) >= rxlog[k]

\* (3, 7) was inserted before (1027, 7) into the bucket they share, and
\* both are found.
C32_Witness ==
    /\ rxlog[<<3, 7>>] # NOT_FOUND
    /\ rxlog[<<1027, 7>>] > rxlog[<<3, 7>>]
    /\ rxlog[<<3, 65543>>] = NOT_FOUND
    /\ hash_function(3, 7) = hash_function(1027, 7)
    /\ get_timestamp(hash_table, now, 3, 7) = rxlog[<<3, 7>>]
    /\ get_timestamp(hash_table, now, 1027, 7) = rxlog[<<1027, 7>>]

\* The keys of a chain, in chain order.
ChainKeys(chain) == [i \in 1..Len(chain) |-> <<chain[i].src, chain[i].packet_id>>]

\* The number of entries stored.
NumEntries ==
    Cardinality({<<i, j>> \in (DOMAIN hash_table) \X (1..Cardinality(CacheKeys)) :
                    j <= Len(hash_table[i])})

\* C33: the cache holds one entry for each key insert_entry was given and
\* no more; inserting a key that is stored leaves the keys of its chain in
\* the places they had.
C33_OneEntryPerKey ==
    /\ [](/\ \A i \in DOMAIN hash_table :
                \A a, b \in 1..Len(hash_table[i]) :
                    ChainKeys(hash_table[i])[a] = ChainKeys(hash_table[i])[b]
                        => a = b
          /\ KeysOf(hash_table) = KeysInserted
          /\ NumEntries = Cardinality(KeysInserted))
    /\ [][ (call'.op = "insert_entry" /\ call'.prior # NOT_FOUND) =>
               \A i \in DOMAIN hash_table :
                   /\ i \in DOMAIN hash_table'
                   /\ ChainKeys(hash_table'[i]) = ChainKeys(hash_table[i]) ]_vars

\* A key was inserted again into a chain of two.
C33_Witness ==
    /\ IsInsert
    /\ call.prior # NOT_FOUND
    /\ Len(Bucket(hash_table, hash_function(call.src, U16(call.packet_id)))) = 2
    /\ NumEntries = 3

\* C34: insert_entry for a key leaves the entry of every other key as it
\* was, stored or not, with its timestamp, in the same bucket and in the
\* others.
C34_InsertTouchesOneKey ==
    [][ call'.op = "insert_entry" =>
            \A k \in CacheKeys :
                CacheKey(k) # <<call'.src, U16(call'.packet_id)>> =>
                    StoredTimestamp(hash_table', k[1], U16(k[2]))
                        = StoredTimestamp(hash_table, k[1], U16(k[2])) ]_vars

\* A key at the head of a chain of two was inserted again and the other key
\* of the chain is still stored.
C34_Witness ==
    /\ IsInsert
    /\ call.prior # NOT_FOUND
    /\ LET chain == Bucket(hash_table,
                           hash_function(call.src, U16(call.packet_id)))
       IN  /\ Len(chain) = 2
           /\ chain[1].src = call.src
           /\ chain[1].timestamp > chain[2].timestamp

\* C35: a call of get_timestamp leaves the cache as it was, whether the
\* pair is found, expired or not stored; an expired entry stays stored.
C35_LookupReadsOnly ==
    [][ call'.op = "get_timestamp" => hash_table' = hash_table ]_vars

\* The pair looked up is stored and expired, and is still stored.
C35_Witness ==
    /\ IsLookup
    /\ call.timestamp = NOT_FOUND
    /\ StoredTimestamp(hash_table, call.src, U16(call.packet_id)) # NOT_FOUND

\* C36: the handling of a frame for this node or for another node, and
\* every call of my_fish_l3_send and my_fish_l3_forward, makes no call of
\* get_timestamp or insert_entry and leaves the cache as it was; what the
\* receive handler does with such a frame is what it does with an empty
\* cache, so a frame for this node is delivered at every reception and one
\* for another node is forwarded at every reception its ttl allows.
C36_UnicastIgnoresCache ==
    [][ ( \/ call'.op \in {"fish_l3_send", "fish_l3_forward"}
          \/ /\ call'.op = "fishnode_l3_receive"
             /\ call'.frame.dst # ALL_NEIGHBORS ) =>
            /\ hash_table' = hash_table
            /\ \A i \in 1..Len(trace') :
                   trace'[i].op \notin {"get_timestamp", "insert_entry"}
            /\ call'.op = "fishnode_l3_receive" =>
                   /\ \E uninit \in PacketIds :
                          trace' = my_fishnode_l3_receive(
                                       <<>>, call'.at, call'.frame, call'.len,
                                       call'.protocol, uninit).events
                   /\ call'.frame.dst = MyAddr =>
                          Len(SelectSeq(trace',
                                  LAMBDA e : e.op = "fish_l4_receive")) = 1
                   /\ (call'.frame.dst # MyAddr /\ call'.frame.ttl > 1) =>
                          /\ trace'[1].op = "fish_l3_forward"
                          /\ SamePacket(trace'[1].frame, call'.frame) ]_vars

\* A frame for another node was forwarded although its pair is in the cache
\* and unexpired.
C36_Witness ==
    /\ RxOther
    /\ get_timestamp(hash_table, now, call.frame.src,
                     U16(call.frame.packet_id)) # NOT_FOUND
    /\ Len(trace) > 0
    /\ trace[1].op = "fish_l3_forward"
    /\ trace[1].frame.ttl = call.frame.ttl - 1

\* C37: in the handling of a broadcast frame the refresh follows the lookup
\* directly: insert_entry, if called, is the second call, for the key
\* get_timestamp was asked about and found, no other call lies between
\* them, and the entry then stored carries the time of this reception.
C37_LookupThenRefresh ==
    RxBroadcast =>
        /\ Count("insert_entry") <= 1
        /\ Count("insert_entry") = 1 =>
               /\ trace[1].op = "get_timestamp"
               /\ trace[1].timestamp # NOT_FOUND
               /\ trace[2] = InsertEntry(trace[1].src, trace[1].packet_id)
               /\ StoredTimestamp(hash_table, trace[1].src,
                                  trace[1].packet_id) = call.at

\* The lookup, the refresh, then the delivery and the forward.
C37_Witness ==
    /\ RxBroadcast
    /\ Len(trace) > 2
    /\ trace[2].op = "insert_entry"
    /\ trace[3].op = "fish_l4_receive"

C39_EntriesInTheirBucket ==
    /\ \A i \in DOMAIN hash_table :
           /\ i \in 0..1023
           /\ \A j \in 1..Len(hash_table[i]) :
                  i = Xor(hash_table[i][j].src, hash_table[i][j].packet_id)
                          % 1024
    /\ \A e \in CacheEntries :
           get_timestamp(hash_table, e.timestamp, e.src, e.packet_id)
               = e.timestamp

\* Two keys share bucket 4 and a third lies in bucket 11.
C39_Witness ==
    /\ DOMAIN hash_table = {4, 11}
    /\ Len(hash_table[4]) = 2

====
